---- MODULE Spec2Model ----
(***************************************************************************)
(* Symbol export tables and upstream monomorphization ownership of         *)
(* librustc_trans/back/symbol_export.rs.                                   *)
(*                                                                         *)
(* Three specifications share the variables:                               *)
(*   SpecThreshold  crates_export_threshold over a list of crate types     *)
(*   SpecLocal      reachable_non_generics_provider and                    *)
(*                  exported_symbols_provider_local of the local crate     *)
(*   SpecUpstream   upstream_monomorphizations_provider, one crate of the  *)
(*                  outer loop per step                                    *)
(*                                                                         *)
(* Option<T> is a sequence: <<>> is None, <<x>> is Some(x).                *)
(* A DefIdMap / FxHashMap is a function whose DOMAIN is its key set.       *)
(***************************************************************************)
EXTENDS Integers, Sequences, FiniteSets, TLC

(* ------------------------------ bounds --------------------------------- *)

\* crate types given on one command line (SpecThreshold)
MaxKinds == 3
\* definitions of the local crate in play: the nodes of its reachable set
\* plus the translation items placed in its code generation units
MaxItems == 2
\* session, target and crate options switched away from their default at once
MaxSwitches == 2
\* upstream crates of the link
NumUnits == 2
\* crate fingerprints are drawn from 1..MaxFp
MaxFp == 3
\* records in the tables of the upstream crates, all together
MaxRecords == 3

(* ------------------------------ state ---------------------------------- *)

VARIABLES
    pc,                      \* which provider runs next
    sess,                    \* tcx.sess: the session options
    tcx,                     \* crate-level query inputs
    export_threshold,        \* result of threshold(tcx), Option
    reachable_non_generics,  \* query cache, Option of the DefIdMap
    cgus,                    \* collect_and_partition_translation_items, Option
    symbols,                 \* exported_symbols(LOCAL_CRATE), Option of the Vec
    def_path_hash,           \* upstream crate -> fingerprint of its root
    exported_symbols,        \* upstream crate -> its table, once loaded
    cnum_stable_ids,         \* IndexVec<CrateNum, Fingerprint>
    instances,               \* DefIdMap<FxHashMap<Substs, CrateNum>>
    next_cnum                \* position of the outer loop in cnums

vars == <<pc, sess, tcx, export_threshold, reachable_non_generics, cgus, symbols,
          def_path_hash, exported_symbols, cnum_stable_ids, instances, next_cnum>>

None == <<>>

Some(x) == <<x>>

IsSome(o) == o # <<>>

Unwrap(o) == o[1]

Range(s) == {s[i] : i \in DOMAIN s}

EmptyMap == [k \in {} |-> None]

\* FxHashMap::insert: the key's value is replaced when present
MapInsert(m, k, v) == [x \in DOMAIN m \cup {k} |-> IF x = k THEN v ELSE m[x]]

LOCAL_CRATE == 0

(* --------------------------- export threshold -------------------------- *)

CrateTypes ==
    {"Executable", "Staticlib", "ProcMacro", "Cdylib", "Rlib", "Dylib"}

\* variant: a dylib among the crate types that only need the C level
DylibThresholdC(crate_type) ==
    CASE crate_type \in {"Executable", "Staticlib", "ProcMacro", "Cdylib", "Dylib"} -> "C"
      [] crate_type \in {"Rlib"} -> "Rust"

crate_export_threshold(crate_type) ==
    CASE crate_type \in {"Executable", "Staticlib", "ProcMacro", "Cdylib"} -> "C"
      [] crate_type \in {"Rlib", "Dylib"} -> "Rust"

\* Iterator::any: stops at the first crate type whose threshold is Rust
RECURSIVE AnyRustThreshold(_)
AnyRustThreshold(crate_types) ==
    IF crate_types = <<>> THEN FALSE
    ELSE IF crate_export_threshold(Head(crate_types)) = "Rust" THEN TRUE
    ELSE AnyRustThreshold(Tail(crate_types))

crates_export_threshold(crate_types) ==
    IF AnyRustThreshold(crate_types) THEN "Rust" ELSE "C"

threshold(s) == crates_export_threshold(s.crate_types)

(* ------------------------- the local crate's HIR ----------------------- *)

\* One node per shape the providers tell apart. node is the hir::map::Node
\* variant; the other fields are the answers of the queries the providers ask
\* about the node's definition.
HirNodes == <<
    [node |-> "ForeignItem",    statically_included |-> TRUE,
     requires_monomorphization |-> FALSE, requires_local |-> FALSE,
     symbol_name |-> "rust_eh_register_frames",
     extern_indicator |-> TRUE, std_internal |-> FALSE],
    [node |-> "ForeignItem",    statically_included |-> FALSE,
     requires_monomorphization |-> FALSE, requires_local |-> FALSE,
     symbol_name |-> "dyn_import",
     extern_indicator |-> TRUE, std_internal |-> FALSE],
    [node |-> "ItemFn",         statically_included |-> FALSE,
     requires_monomorphization |-> FALSE, requires_local |-> FALSE,
     symbol_name |-> "_ZN5plain2fnE",
     extern_indicator |-> FALSE, std_internal |-> FALSE],
    [node |-> "ItemFn",         statically_included |-> FALSE,
     requires_monomorphization |-> FALSE, requires_local |-> FALSE,
     symbol_name |-> "rust_eh_personality",
     extern_indicator |-> TRUE, std_internal |-> FALSE],
    [node |-> "ItemStatic",     statically_included |-> FALSE,
     requires_monomorphization |-> FALSE, requires_local |-> FALSE,
     symbol_name |-> "ext_static",
     extern_indicator |-> TRUE, std_internal |-> FALSE],
    [node |-> "ItemFn",         statically_included |-> FALSE,
     requires_monomorphization |-> TRUE, requires_local |-> FALSE,
     symbol_name |-> "_ZN7generic2fnE",
     extern_indicator |-> FALSE, std_internal |-> FALSE],
    [node |-> "ItemFn",         statically_included |-> FALSE,
     requires_monomorphization |-> FALSE, requires_local |-> TRUE,
     symbol_name |-> "inline_fn",
     extern_indicator |-> TRUE, std_internal |-> FALSE],
    [node |-> "ImplItemMethod", statically_included |-> FALSE,
     requires_monomorphization |-> FALSE, requires_local |-> FALSE,
     symbol_name |-> "rust_eh_unregister_frames",
     extern_indicator |-> TRUE, std_internal |-> TRUE],
    [node |-> "Other",          statically_included |-> FALSE,
     requires_monomorphization |-> FALSE, requires_local |-> FALSE,
     symbol_name |-> "",
     extern_indicator |-> FALSE, std_internal |-> FALSE] >>

NodeIds == DOMAIN HirNodes

\* the nodes a registrar attribute can sit on: functions of the registrar's
\* fixed signature, which has no type parameter
FnNodes ==
    {n \in NodeIds : HirNodes[n].node = "ItemFn" /\ ~HirNodes[n].requires_monomorphization}

\* tcx.hir.local_def_id
local_def_id(node_id) == [krate |-> LOCAL_CRATE, index |-> node_id]

\* tcx.hir.get(node_id), then the queries on its DefId
hir_get(def_id) == HirNodes[def_id.index]

(* -------------------- reachable_non_generics_provider ------------------ *)

ShouldTransAlways(s) == TRUE

should_trans(s) == s.should_trans

\* the filter_map closure: Some(def_id) for a node that has an exported symbol
ReachableFilter(node_id) ==
    LET def_id == local_def_id(node_id)
        n == hir_get(def_id)
    IN  CASE n.node = "ForeignItem" ->
                IF n.statically_included THEN Some(def_id) ELSE None
          [] n.node \in {"ItemStatic", "ItemFn", "ImplItemMethod"} ->
                IF ~n.requires_monomorphization /\ ~n.requires_local
                THEN Some(def_id) ELSE None
          [] OTHER -> None

symbol_export_level(sym_def_id) ==
    LET is_extern == hir_get(sym_def_id).extern_indicator
        std_internal == hir_get(sym_def_id).std_internal
    IN  IF is_extern /\ ~std_internal THEN "C" ELSE "Rust"

RuntimeCrateLevelTwoHooks(name) ==
    IF name = "rust_eh_personality" \/ name = "rust_eh_register_frames"
    THEN "C" ELSE "Rust"

\* the level of a symbol of a special runtime crate
RuntimeCrateLevel(name) ==
    IF name = "rust_eh_personality" \/
       name = "rust_eh_register_frames" \/
       name = "rust_eh_unregister_frames"
    THEN "C" ELSE "Rust"

\* the map closure
ExportLevel(special_runtime_crate, def_id) ==
    IF special_runtime_crate
    THEN RuntimeCrateLevel(hir_get(def_id).symbol_name)
    ELSE symbol_export_level(def_id)

InsertRegistrar(map, registrar_fn) ==
    IF IsSome(registrar_fn)
    THEN MapInsert(map, local_def_id(Unwrap(registrar_fn)), "C")
    ELSE map

reachable_non_generics_provider(s, t) ==
    IF ~should_trans(s) THEN EmptyMap
    ELSE
    LET special_runtime_crate == t.is_panic_runtime \/ t.is_compiler_builtins
        kept == {Unwrap(ReachableFilter(n)) :
                    n \in {m \in t.reachable_set : IsSome(ReachableFilter(m))}}
        collected == [d \in kept |-> ExportLevel(special_runtime_crate, d)]
    IN  InsertRegistrar(InsertRegistrar(collected, s.derive_registrar_fn),
                        s.plugin_registrar_fn)

(* --------------------------- exported symbols -------------------------- *)

NonGeneric(def_id) == [kind |-> "NonGeneric", def_id |-> def_id]

Generic(def_id, substs) == [kind |-> "Generic", def_id |-> def_id, substs |-> substs]

NoDefId(name) == [kind |-> "NoDefId", name |-> name]

\* rustc_allocator::ALLOCATOR_METHODS, the names only
ALLOCATOR_METHODS == <<"alloc", "dealloc", "realloc", "alloc_zeroed">>

PROFILER_WEAK_SYMBOLS == <<"__llvm_profile_raw_version", "__llvm_profile_filename">>

\* rustc::middle::exported_symbols::metadata_symbol_name
metadata_symbol_name == "rust_metadata_local_0"

\* the free-standing symbol names in the byte order str::cmp gives them
SymbolNameOrder == <<
    "__llvm_profile_filename", "__llvm_profile_raw_version",
    "__rust_alloc", "__rust_alloc_zeroed", "__rust_dealloc", "__rust_realloc",
    "main", "rust_metadata_local_0" >>

NameRank(name) == CHOOSE i \in DOMAIN SymbolNameOrder : SymbolNameOrder[i] = name

\* tcx.def_path_hash: a content hash, unrelated to the order of the indices
DefPathHash(def_id) == (def_id.index * 7 + def_id.krate * 5) % 23

\* a substitution list is a sequence of kinds: types and lifetimes
Ty(name) == [kind |-> "Type", name |-> name]

Lifetime(name) == [kind |-> "Lifetime", name |-> name]

\* substs.types(): the kinds that are types, in order
SubstsTypes(substs) == SelectSeq(substs, LAMBDA k : k.kind = "Type")

TypeNameOrder == <<"u32", "u8">>

TypeRank(k) ==
    IF k.kind = "Lifetime" THEN 0
    ELSE CHOOSE i \in DOMAIN TypeNameOrder : TypeNameOrder[i] = k.name

\* the mangled name of an instantiation orders like (path hash, type hashes)
RECURSIVE SubstsKey(_)
SubstsKey(substs) ==
    IF substs = <<>> THEN 0 ELSE TypeRank(Head(substs)) + 3 * SubstsKey(Tail(substs))

CmpInt(a, b) == IF a < b THEN "Less" ELSE IF a > b THEN "Greater" ELSE "Equal"

\* ExportedSymbol::compare_stable
compare_stable(symbol1, symbol2) ==
    CASE symbol1.kind = "NonGeneric" ->
            IF symbol2.kind = "NonGeneric"
            THEN CmpInt(DefPathHash(symbol1.def_id), DefPathHash(symbol2.def_id))
            ELSE "Less"
      [] symbol1.kind = "Generic" ->
            IF symbol2.kind = "NonGeneric" THEN "Greater"
            ELSE IF symbol2.kind = "NoDefId" THEN "Less"
            ELSE IF DefPathHash(symbol1.def_id) # DefPathHash(symbol2.def_id)
            THEN CmpInt(DefPathHash(symbol1.def_id), DefPathHash(symbol2.def_id))
            ELSE CmpInt(SubstsKey(symbol1.substs), SubstsKey(symbol2.substs))
      [] symbol1.kind = "NoDefId" ->
            IF symbol2.kind = "NoDefId"
            THEN CmpInt(NameRank(symbol1.name), NameRank(symbol2.name))
            ELSE "Greater"

\* the closure given to sort_unstable_by: the levels are not compared
CompareRecords(r1, r2) == compare_stable(r1[1], r2[1])

IsSortedBy(seq) ==
    \A i \in 1..(Len(seq) - 1) : CompareRecords(seq[i], seq[i + 1]) # "Greater"

InsertAt(seq, i, x) == SubSeq(seq, 1, i - 1) \o <<x>> \o SubSeq(seq, i, Len(seq))

\* every sorted sequence that x can be put into sorted seq to give: x goes
\* between two neighbours it is in order with
SortedInsertions(seq, x) ==
    {InsertAt(seq, i, x) : i \in {j \in 1..(Len(seq) + 1) :
        /\ j > 1 => CompareRecords(seq[j - 1], x) # "Greater"
        /\ j <= Len(seq) => CompareRecords(x, seq[j]) # "Greater"}}

RECURSIVE SortedArrangements(_)
SortedArrangements(seq) ==
    IF seq = <<>> THEN {<<>>}
    ELSE UNION {SortedInsertions(t, Head(seq)) : t \in SortedArrangements(Tail(seq))}

LeftUnsorted(seq) == {seq}

\* slice::sort_unstable_by: some sorted arrangement of the records; records
\* that compare equal may end in any order
sort_unstable_by(seq) == SortedArrangements(seq)

(* ------------------------- translation items --------------------------- *)

\* a generic function of the local crate, and one of an upstream crate
GenericLocal == local_def_id(6)

GenericUpstream == [krate |-> 1, index |-> 1]

\* core::ptr::drop_in_place
DropInPlace == [krate |-> 1, index |-> 2]

MonoFn(instance_def, def_id, substs) ==
    [kind |-> "Fn", instance_def |-> instance_def, def_id |-> def_id, substs |-> substs]

MonoStatic(def_id) == [kind |-> "Static", def_id |-> def_id]

\* (mono_item, (linkage, visibility)) as the partitioner may place them
PlacedItems == {
    <<MonoFn("Item", GenericLocal, <<Ty("u32")>>), "External", "Default">>,
    <<MonoFn("Item", GenericLocal, <<Ty("u32")>>), "Internal", "Default">>,
    <<MonoFn("Item", GenericLocal, <<Ty("u8")>>), "External", "Hidden">>,
    <<MonoFn("Item", GenericUpstream, <<Lifetime("a"), Ty("u32")>>), "External", "Default">>,
    <<MonoFn("Item", local_def_id(3), <<Lifetime("a")>>), "External", "Default">>,
    <<MonoFn("DropGlue", DropInPlace, <<Ty("u8")>>), "External", "Hidden">>,
    <<MonoStatic(local_def_id(5)), "External", "Default">> }

\* A codegen unit is a set of placed items, one placement per mono item. The
\* chosen items share one unit when their mono items differ, and get a unit
\* each otherwise.
CguPartitions(max_items) ==
    {IF \A p, q \in P : p # q => p[1] # q[1] THEN {P} \ {{}} ELSE {{p} : p \in P} :
        P \in {Q \in SUBSET PlacedItems : Cardinality(Q) <= max_items}}

\* all sequences that list each element of the set once
RECURSIVE Orderings(_)
Orderings(set) ==
    IF set = {} THEN {<<>>}
    ELSE UNION {{<<x>> \o rest : rest \in Orderings(set \ {x})} : x \in set}


\* cgus.iter().flat_map(|cgu| cgu.items().iter()): the units in some order,
\* the items of each unit (a hash map) in some order
RECURSIVE ItemIterations(_)
ItemIterations(cgu_seq) ==
    IF cgu_seq = <<>> THEN {<<>>}
    ELSE {first \o rest : first \in Orderings(Head(cgu_seq)),
                          rest \in ItemIterations(Tail(cgu_seq))}

FlatItemIterations(cgu_set) ==
    UNION {ItemIterations(cgu_seq) : cgu_seq \in Orderings(cgu_set)}

(* -------------------- exported_symbols_provider_local ------------------ *)

NeedVisibility(s) == s.dynamic_linking /\ ~s.only_cdylib

SharesGenerics(t) == t.share_generics /\ t.local_crate_exports_generics

\* the if-let pattern: a function instance of a plain item
IsItemFn(mono_item) == mono_item.kind = "Fn" /\ mono_item.instance_def = "Item"

IgnoresLinkage(placed, need_visibility) ==
    ~(need_visibility /\ placed[3] = "Hidden")

\* the two `continue`s of the loop
Reusable(placed, need_visibility) ==
    /\ placed[2] = "External"
    /\ ~(need_visibility /\ placed[3] = "Hidden")

\* the records the loop over the codegen units pushes, in iteration order
GenericSymbols(items, need_visibility) ==
    LET pushed == SelectSeq(items, LAMBDA p :
                      /\ Reusable(p, need_visibility)
                      /\ IsItemFn(p[1])
                      /\ SubstsTypes(p[1].substs) # <<>>)
    IN  [i \in DOMAIN pushed |->
            <<Generic(pushed[i][1].def_id, pushed[i][1].substs), "Rust">>]

\* the Vec before the sort: map_iter is the order the reachable_non_generics
\* map is iterated in, items the order the placed items are
UnsortedSymbols(s, t, rng, map_iter, items) ==
    LET non_generics ==
            [i \in DOMAIN map_iter |-> <<NonGeneric(map_iter[i]), rng[map_iter[i]]>>]
        entry == IF IsSome(s.entry_fn) THEN << <<NoDefId("main"), "C">> >> ELSE <<>>
        allocator ==
            IF IsSome(s.allocator_kind)
            THEN [i \in DOMAIN ALLOCATOR_METHODS |->
                    <<NoDefId("__rust_" \o ALLOCATOR_METHODS[i]), "Rust">>]
            ELSE <<>>
        profiler ==
            IF IsSome(s.pgo_gen)
            THEN [i \in DOMAIN PROFILER_WEAK_SYMBOLS |->
                    <<NoDefId(PROFILER_WEAK_SYMBOLS[i]), "C">>]
            ELSE <<>>
        metadata ==
            IF "Dylib" \in Range(s.crate_types)
            THEN << <<NoDefId(metadata_symbol_name), "Rust">> >> ELSE <<>>
        generics ==
            IF SharesGenerics(t) THEN GenericSymbols(items, NeedVisibility(s)) ELSE <<>>
    IN  non_generics \o entry \o allocator \o profiler \o metadata \o generics

\* every table the provider can return: one per iteration order of the two
\* hash maps and per outcome of the unstable sort
exported_symbols_provider_local(s, t, rng, cgu_set) ==
    IF ~should_trans(s) THEN {<<>>}
    ELSE UNION {sort_unstable_by(UnsortedSymbols(s, t, rng, map_iter, items)) :
                    map_iter \in Orderings(DOMAIN rng),
                    items \in FlatItemIterations(cgu_set)}

(* ------------------------- session configurations ---------------------- *)

\* The options of a build. One that is not switched is at its default: None,
\* off, and for should_trans, dynamic_linking and local_crate_exports_generics
\* on.
Switches == {
    "should_trans",
    "derive_registrar_fn", "plugin_registrar_fn", "entry_fn", "allocator_kind",
    "pgo_gen", "crate_types", "dynamic_linking", "only_cdylib",
    "is_panic_runtime", "is_compiler_builtins",
    "share_generics", "local_crate_exports_generics" }

SwitchSets == {on \in SUBSET Switches : Cardinality(on) <= MaxSwitches}

RegistrarChoices(on, switch) == IF switch \in on THEN {Some(n) : n \in FnNodes} ELSE {None}

CrateTypeChoices(on) ==
    IF "crate_types" \in on
    THEN {<<"Executable", "Dylib">>}
    ELSE {<<"Executable">>}

SessOf(on, derive, plugin, crate_types) ==
    [should_trans |-> "should_trans" \notin on,
     derive_registrar_fn |-> derive,
     plugin_registrar_fn |-> plugin,
     entry_fn |-> IF "entry_fn" \in on THEN Some(3) ELSE None,
     allocator_kind |-> IF "allocator_kind" \in on THEN Some("Global") ELSE None,
     pgo_gen |-> IF "pgo_gen" \in on THEN Some("default.profraw") ELSE None,
     crate_types |-> crate_types,
     dynamic_linking |-> "dynamic_linking" \notin on,
     only_cdylib |-> "only_cdylib" \in on]

TcxOf(on, reachable) ==
    [is_panic_runtime |-> "is_panic_runtime" \in on,
     is_compiler_builtins |-> "is_compiler_builtins" \in on,
     share_generics |-> "share_generics" \in on,
     local_crate_exports_generics |-> "local_crate_exports_generics" \notin on,
     reachable_set |-> reachable]

ReachableSets == {r \in SUBSET NodeIds : Cardinality(r) <= MaxItems}

\* the variables of the other specifications, at rest
LocalIdle ==
    /\ export_threshold = None
    /\ reachable_non_generics = None
    /\ cgus = None
    /\ symbols = None

UpstreamIdle ==
    /\ pc = "idle"
    /\ def_path_hash = <<>>
    /\ exported_symbols = <<>>
    /\ cnum_stable_ids = <<>>
    /\ instances = EmptyMap
    /\ next_cnum = 0

UpstreamUnchanged ==
    UNCHANGED <<pc, def_path_hash, exported_symbols, cnum_stable_ids, instances, next_cnum>>

(* ------------------------------ SpecThreshold -------------------------- *)

RECURSIVE SeqsUpTo(_, _)
SeqsUpTo(set, n) ==
    IF n = 0 THEN {<<>>}
    ELSE LET shorter == SeqsUpTo(set, n - 1)
         IN  shorter \cup {Append(q, x) : q \in shorter, x \in set}

InitThreshold ==
    /\ \E crate_types \in SeqsUpTo(CrateTypes, MaxKinds) :
          sess = SessOf({}, None, None, crate_types)
    /\ tcx = TcxOf({}, {})
    /\ LocalIdle
    /\ UpstreamIdle

\* threshold(tcx)
Threshold ==
    /\ export_threshold = None
    /\ export_threshold' = Some(threshold(sess))
    /\ UNCHANGED <<sess, tcx, reachable_non_generics, cgus, symbols>>
    /\ UpstreamUnchanged

NextThreshold == Threshold

SpecThreshold == InitThreshold /\ [][NextThreshold]_vars

(* -------------------------------- SpecLocal ---------------------------- *)

InitLocal ==
    /\ \E on \in SwitchSets, reachable \in ReachableSets :
       \E derive \in RegistrarChoices(on, "derive_registrar_fn"),
          plugin \in RegistrarChoices(on, "plugin_registrar_fn"),
          crate_types \in CrateTypeChoices(on) :
          /\ sess = SessOf(on, derive, plugin, crate_types)
          /\ tcx = TcxOf(on, reachable)
    /\ LocalIdle
    /\ UpstreamIdle

\* tcx.reachable_non_generics(LOCAL_CRATE), computed once and cached
QueryReachableNonGenerics ==
    /\ reachable_non_generics = None
    /\ reachable_non_generics' = Some(reachable_non_generics_provider(sess, tcx))
    /\ UNCHANGED <<sess, tcx, export_threshold, cgus, symbols>>
    /\ UpstreamUnchanged

\* tcx.exported_symbols(LOCAL_CRATE). The provider asks for the
\* reachable_non_generics map, and for the codegen units when generics are
\* shared; a crate that is not translated asks for neither.
QueryExportedSymbols ==
    /\ symbols = None
    /\ LET rng == IF IsSome(reachable_non_generics)
                  THEN Unwrap(reachable_non_generics)
                  ELSE reachable_non_generics_provider(sess, tcx)
           partitions == IF should_trans(sess) /\ SharesGenerics(tcx) /\ cgus = None
                         THEN CguPartitions(MaxItems - Cardinality(tcx.reachable_set))
                         ELSE {IF IsSome(cgus) THEN Unwrap(cgus) ELSE {}}
       IN  \E cgu_set \in partitions :
           \E table \in exported_symbols_provider_local(sess, tcx, rng, cgu_set) :
              /\ symbols' = Some(table)
              /\ cgus' = IF should_trans(sess) /\ SharesGenerics(tcx)
                         THEN Some(cgu_set) ELSE cgus
              /\ reachable_non_generics' =
                    IF should_trans(sess) THEN Some(rng) ELSE reachable_non_generics
    /\ UNCHANGED <<sess, tcx, export_threshold>>
    /\ UpstreamUnchanged

NextLocal == QueryReachableNonGenerics \/ QueryExportedSymbols

SpecLocal == InitLocal /\ [][NextLocal]_vars

(* ------------------ upstream_monomorphizations_provider ---------------- *)

Units == 1..NumUnits

\* tcx.all_crate_nums(LOCAL_CRATE): the upstream crates, in CrateNum order
cnums == [i \in 1..NumUnits |-> i]

\* a second generic function, of the second upstream crate
GenericOther == [krate |-> 2, index |-> 1]

\* the instantiations upstream crates may export
GenericKeys == {
    Generic(GenericUpstream, <<Ty("u32")>>),
    Generic(GenericUpstream, <<Ty("u8")>>),
    Generic(GenericOther, <<Ty("u32")>>) }

\* the records crate cnum's table may hold
UpstreamRecords(cnum) ==
    {<<key, "Rust">> : key \in GenericKeys}
        \cup {<<NonGeneric([krate |-> cnum, index |-> 1]), "C">>}

\* tcx.exported_symbols(cnum) of an upstream crate: a table its own
\* exported_symbols_provider_local sorted
TableChoices(cnum, max_len) ==
    {CHOOSE table \in SortedArrangements(CHOOSE o \in Orderings(R) : TRUE) : TRUE :
        R \in {Q \in SUBSET UpstreamRecords(cnum) : Cardinality(Q) <= max_len}}

\* the records of the tables loaded so far
RECURSIVE RecordsLoaded(_)
RecordsLoaded(tables) ==
    IF DOMAIN tables = {} THEN 0
    ELSE LET c == CHOOSE k \in DOMAIN tables : TRUE
         IN  Len(tables[c]) + RecordsLoaded([k \in DOMAIN tables \ {c} |-> tables[k]])

Fingerprint_ZERO == 0

\* the IndexVec filled by the first loop: slot 0, the local crate's, stays ZERO
StableIds(cnum_seq, hashes) ==
    [c \in 0..Len(cnum_seq) |->
        IF c \in Range(cnum_seq) THEN hashes[c] ELSE Fingerprint_ZERO]

ReplacesOwnerAlways(ids, other_cnum, cnum) == TRUE

ReplacesOwnerOnEqual(ids, other_cnum, cnum) == ids[other_cnum] >= ids[cnum]

\* the test of the Occupied arm
ReplacesOwner(ids, other_cnum, cnum) == ids[other_cnum] > ids[cnum]

VacantSkips(substs_map, substs, cnum) == substs_map

\* the Vacant arm
VacantInsert(substs_map, substs, cnum) == MapInsert(substs_map, substs, cnum)

\* the body of the inner loop for one record of crate cnum's table
ScanSymbol(inst, ids, cnum, record) ==
    IF record[1].kind = "Generic"
    THEN LET def_id == record[1].def_id
             substs == record[1].substs
             substs_map == IF def_id \in DOMAIN inst THEN inst[def_id] ELSE EmptyMap
             updated ==
                IF substs \in DOMAIN substs_map
                THEN IF ReplacesOwner(ids, substs_map[substs], cnum)
                     THEN MapInsert(substs_map, substs, cnum)
                     ELSE substs_map
                ELSE VacantInsert(substs_map, substs, cnum)
         IN  MapInsert(inst, def_id, updated)
    ELSE inst

\* the inner loop over one crate's table
RECURSIVE ScanCrate(_, _, _, _)
ScanCrate(inst, ids, cnum, table) ==
    IF table = <<>> THEN inst
    ELSE ScanCrate(ScanSymbol(inst, ids, cnum, Head(table)), ids, cnum, Tail(table))

RECURSIVE ScanCrates(_, _, _, _)
ScanCrates(inst, ids, cnum_seq, tables) ==
    IF cnum_seq = <<>> THEN inst
    ELSE ScanCrates(ScanCrate(inst, ids, Head(cnum_seq), tables[Head(cnum_seq)]),
                    ids, Tail(cnum_seq), tables)

\* the whole provider, for a list of crates and their tables
upstream_monomorphizations_provider(cnum_seq, hashes, tables) ==
    ScanCrates(EmptyMap, StableIds(cnum_seq, hashes), cnum_seq, tables)

(* ------------------------------- SpecUpstream -------------------------- *)

InitUpstream ==
    /\ sess = SessOf({}, None, None, <<"Executable">>)
    /\ tcx = TcxOf({}, {})
    /\ LocalIdle
    /\ pc = "stable_ids"
    /\ def_path_hash \in [Units -> 1..MaxFp]
    /\ exported_symbols = EmptyMap
    /\ cnum_stable_ids = <<>>
    /\ instances = EmptyMap
    /\ next_cnum = 1

LocalUnchanged ==
    UNCHANGED <<sess, tcx, export_threshold, reachable_non_generics, cgus, symbols>>

\* the first loop: the fingerprint of every crate's root
ComputeStableIds ==
    /\ pc = "stable_ids"
    /\ cnum_stable_ids' = StableIds(cnums, def_path_hash)
    /\ pc' = "scan"
    /\ UNCHANGED <<def_path_hash, exported_symbols, instances, next_cnum>>
    /\ LocalUnchanged

\* one round of the outer loop: the table of the next crate is loaded and
\* scanned
ScanNextCrate ==
    /\ pc = "scan"
    /\ next_cnum <= Len(cnums)
    /\ LET cnum == cnums[next_cnum]
       IN  \E table \in TableChoices(cnum, MaxRecords - RecordsLoaded(exported_symbols)) :
              /\ exported_symbols' = MapInsert(exported_symbols, cnum, table)
              /\ instances' = ScanCrate(instances, cnum_stable_ids, cnum, table)
    /\ next_cnum' = next_cnum + 1
    /\ UNCHANGED <<pc, def_path_hash, cnum_stable_ids>>
    /\ LocalUnchanged

\* the loop is over: the map is returned, and cached
ReturnInstances ==
    /\ pc = "scan"
    /\ next_cnum > Len(cnums)
    /\ pc' = "done"
    /\ UNCHANGED <<def_path_hash, exported_symbols, cnum_stable_ids, instances, next_cnum>>
    /\ LocalUnchanged

NextUpstream == ComputeStableIds \/ ScanNextCrate \/ ReturnInstances

SpecUpstream == InitUpstream /\ [][NextUpstream]_vars

(* ------------------------ ownership: definitions ----------------------- *)

Done == pc = "done"

\* the crates scanned so far whose table holds the instantiation
Exporters(key) ==
    {c \in DOMAIN exported_symbols :
        \E i \in DOMAIN exported_symbols[c] : exported_symbols[c][i][1] = key}

HasOwner(inst, key) ==
    /\ key.def_id \in DOMAIN inst
    /\ key.substs \in DOMAIN inst[key.def_id]

Owner(inst, key) == inst[key.def_id][key.substs]

\* every (definition, type arguments) pair the nested map has an entry for
OwnedKeys(inst) ==
    UNION {{Generic(d, sub) : sub \in DOMAIN inst[d]} : d \in DOMAIN inst}

\* the tables with the records of each in any order
RECURSIVE Reorderings(_)
Reorderings(tables) ==
    IF DOMAIN tables = {} THEN {EmptyMap}
    ELSE LET c == CHOOSE k \in DOMAIN tables : TRUE
         IN  {MapInsert(rest, c, table) :
                rest \in Reorderings([k \in DOMAIN tables \ {c} |-> tables[k]]),
                table \in Orderings(Range(tables[c]))}

\* units that export a common instantiation have different fingerprints
SharingUnitsDiffer ==
    \A key \in GenericKeys : \A u1, u2 \in Exporters(key) :
        u1 # u2 => def_path_hash[u1] # def_path_hash[u2]

(* C1 as stated: when exactly two scanned units export the same instantiation
   and their fingerprints differ, the final map gives the instantiation to the
   unit with the strictly greater fingerprint. *)
C1_GreaterFingerprintOwns ==
    Done => \A key \in GenericKeys : \A u1, u2 \in Units :
        (Exporters(key) = {u1, u2} /\ def_path_hash[u2] > def_path_hash[u1])
            => (HasOwner(instances, key) /\ Owner(instances, key) = u2)

(* C1 amended: when two units export the same instantiation and their
   fingerprints differ, the unit with the greater fingerprint is never the
   owner, whichever of the two is scanned first; when they are the only two
   exporters the owner is the unit with the strictly smaller fingerprint. *)
C1_SmallerFingerprintOwns ==
    Done => \A key \in GenericKeys : \A u1, u2 \in Exporters(key) :
        def_path_hash[u1] < def_path_hash[u2]
            => /\ HasOwner(instances, key)
               /\ Owner(instances, key) # u2
               /\ Exporters(key) = {u1, u2} => Owner(instances, key) = u1

\* two exporters, the one scanned later has the smaller fingerprint and owns
C1_Witness ==
    /\ Done
    /\ \E key \in GenericKeys : \E u1, u2 \in Units :
          /\ Exporters(key) = {u1, u2}
          /\ u2 < u1
          /\ def_path_hash[u1] < def_path_hash[u2]
          /\ Owner(instances, key) = u1

(* C2: after all units are scanned, an instantiation has an entry in the
   ownership map exactly when some unit's table holds it as a Generic record,
   the owner recorded is one of the units whose table holds it, and the map has
   no entry for anything no unit exported. *)
C2_TotalityOfOwnership ==
    Done =>
        /\ \A key \in GenericKeys :
              /\ Exporters(key) # {} <=> HasOwner(instances, key)
              /\ HasOwner(instances, key) => Owner(instances, key) \in Exporters(key)
        /\ OwnedKeys(instances) \subseteq {key \in GenericKeys : Exporters(key) # {}}
        /\ \A d \in DOMAIN instances : DOMAIN instances[d] # {}

\* one instantiation exported by two units, another by none, a third record
\* that is not an instantiation
C2_Witness ==
    /\ Done
    /\ \E key \in GenericKeys : Cardinality(Exporters(key)) = 2
    /\ \E key \in GenericKeys : Exporters(key) = {} /\ ~HasOwner(instances, key)
    /\ \E c \in DOMAIN exported_symbols : \E i \in DOMAIN exported_symbols[c] :
          exported_symbols[c][i][1].kind = "NonGeneric"

(* C3 as stated: for every assignment of fingerprints, the provider run over
   any permutation of the unit list and any order of the records inside each
   table gives the map the scan gave. *)
C3_OrderIndependent ==
    Done => \A cnum_seq \in Orderings(Units) : \A tables \in Reorderings(exported_symbols) :
        upstream_monomorphizations_provider(cnum_seq, def_path_hash, tables) = instances

(* C3 amended: when the units that export a common instantiation have
   pairwise different fingerprints, the provider run over any permutation of
   the unit list and any order of the records inside each table gives the map
   the scan gave. *)
C3_OrderIndependentWhenDistinct ==
    (Done /\ SharingUnitsDiffer) =>
        \A cnum_seq \in Orderings(Units) : \A tables \in Reorderings(exported_symbols) :
            upstream_monomorphizations_provider(cnum_seq, def_path_hash, tables) = instances

\* two units share an instantiation, the later scanned one owns it, and a
\* table has two records to reorder
C3_Witness ==
    /\ Done
    /\ SharingUnitsDiffer
    /\ \E key \in GenericKeys : \E u1, u2 \in Exporters(key) :
          u1 < u2 /\ Owner(instances, key) = u2
    /\ \E c \in DOMAIN exported_symbols : Len(exported_symbols[c]) >= 2

\* the owner of an instantiation in the map of a state
MinimalOwner(key) ==
    /\ HasOwner(instances, key)
    /\ Owner(instances, key) \in Exporters(key)
    /\ \A u \in Exporters(key) :
          /\ cnum_stable_ids[Owner(instances, key)] <= cnum_stable_ids[u]
          /\ cnum_stable_ids[Owner(instances, key)] = cnum_stable_ids[u]
                => Owner(instances, key) <= u

PrefixInvariant ==
    \A key \in GenericKeys :
        /\ Exporters(key) # {} => MinimalOwner(key)
        /\ Exporters(key) = {} => ~HasOwner(instances, key)

OwnerOnlyDecreases ==
    \A key \in GenericKeys :
        (HasOwner(instances, key) /\ Owner(instances', key) # Owner(instances, key))
            => cnum_stable_ids[Owner(instances', key)] < cnum_stable_ids[Owner(instances, key)]

(* C10: after any prefix of the units is scanned, every instantiation seen so
   far is owned by a scanned unit that exported it, whose fingerprint is at
   most that of every scanned exporter, and which is the first scanned among
   the exporters of that fingerprint; a step replaces an owner only by a unit
   of strictly smaller fingerprint. *)
C10_LoopInvariant == [](PrefixInvariant) /\ [][OwnerOnlyDecreases]_vars

\* before the provider returns: two scanned units of equal fingerprint export
\* an instantiation and the first one scanned owns it
C10_Witness ==
    /\ pc = "scan"
    /\ \E key \in GenericKeys : \E u1, u2 \in Exporters(key) :
          /\ u1 < u2
          /\ def_path_hash[u1] = def_path_hash[u2]
          /\ Owner(instances, key) = u1

(* ----------------------- local crate: definitions ---------------------- *)

RngComputed == IsSome(reachable_non_generics)

Rng == Unwrap(reachable_non_generics)

SymbolsComputed == IsSome(symbols)

Table == Unwrap(symbols)

SpecialRuntimeCrate == tcx.is_panic_runtime \/ tcx.is_compiler_builtins

UnwindHooks ==
    {"rust_eh_personality", "rust_eh_register_frames", "rust_eh_unregister_frames"}

\* the definitions of the registrar functions that are set
Registrars ==
    {local_def_id(Unwrap(r)) :
        r \in {sess.derive_registrar_fn, sess.plugin_registrar_fn} \ {None}}

\* the placed items of the codegen units, once the provider asked for them
Placed == IF IsSome(cgus) THEN UNION Unwrap(cgus) ELSE {}

\* External linkage and, where visibility is needed, not Hidden
PassesLinkage(placed) ==
    /\ placed[2] = "External"
    /\ NeedVisibility(sess) => placed[3] # "Hidden"

HasTypeArgument(mono_item) == SubstsTypes(mono_item.substs) # <<>>

\* requires per-call-site specialization, or is a foreign item that is not
\* statically included
Excluded(def_id) ==
    LET n == hir_get(def_id)
    IN  \/ n.requires_monomorphization
        \/ n.requires_local
        \/ n.node = "ForeignItem" /\ ~n.statically_included

(* C4 as stated: in the map of a special runtime crate the definitions named
   after the three unwind hooks have level C and every other definition has
   level Rust, a registrar function being set or not. *)
C4_RuntimeCrateLevels ==
    (RngComputed /\ SpecialRuntimeCrate) =>
        \A d \in DOMAIN Rng :
            Rng[d] = IF hir_get(d).symbol_name \in UnwindHooks THEN "C" ELSE "Rust"

(* C4 amended: in the map of a special runtime crate the definitions named
   after the three unwind hooks, and the derive and plugin registrar functions
   that are set, have level C; every other definition has level Rust. *)
C4_RuntimeCrateLevelsButRegistrars ==
    (RngComputed /\ SpecialRuntimeCrate) =>
        \A d \in DOMAIN Rng :
            Rng[d] = IF hir_get(d).symbol_name \in UnwindHooks \/ d \in Registrars
                     THEN "C" ELSE "Rust"

\* a runtime crate with a registrar, whose map holds a hook at C and a symbol
\* at Rust that any other crate would export at C
C4_Witness ==
    /\ RngComputed
    /\ SpecialRuntimeCrate
    /\ Registrars # {}
    /\ \E d \in DOMAIN Rng : hir_get(d).symbol_name \in UnwindHooks /\ Rng[d] = "C"
    /\ \E d \in DOMAIN Rng \ Registrars :
          symbol_export_level(d) = "C" /\ Rng[d] = "Rust"

\* a placed function instance that the record may come from
Justifies(p, record) ==
    /\ p[1].kind = "Fn"
    /\ p[1].def_id = record[1].def_id
    /\ p[1].substs = record[1].substs
    /\ PassesLinkage(p)

(* C5 as stated: a Generic record is in the table only if generics are
   shared and exported and the item was placed in some codegen unit with
   External linkage and, where visibility is needed, not Hidden; every placed
   function instance with a type argument that meets these conditions has a
   record; every record has level Rust. *)
C5_GenericRecords ==
    /\ SymbolsComputed => \A i \in DOMAIN Table :
          Table[i][1].kind = "Generic" =>
              /\ SharesGenerics(tcx)
              /\ Table[i][2] = "Rust"
              /\ \E p \in Placed : Justifies(p, Table[i])
    /\ (SymbolsComputed /\ IsSome(cgus)) =>
          \A p \in Placed :
              (p[1].kind = "Fn" /\ HasTypeArgument(p[1]) /\ PassesLinkage(p))
                  => <<Generic(p[1].def_id, p[1].substs), "Rust">> \in Range(Table)

(* C5 amended: as C5, but the function instances that get a record are those
   of a plain item (InstanceDef::Item): a placed instance of another kind,
   such as drop glue, gets none. *)
C5_GenericRecordsOfItems ==
    /\ SymbolsComputed => \A i \in DOMAIN Table :
          Table[i][1].kind = "Generic" =>
              /\ SharesGenerics(tcx)
              /\ Table[i][2] = "Rust"
              /\ \E p \in Placed :
                    Justifies(p, Table[i]) /\ IsItemFn(p[1]) /\ HasTypeArgument(p[1])
    /\ (SymbolsComputed /\ IsSome(cgus)) =>
          \A p \in Placed :
              (IsItemFn(p[1]) /\ HasTypeArgument(p[1]) /\ PassesLinkage(p))
                  => <<Generic(p[1].def_id, p[1].substs), "Rust">> \in Range(Table)

\* the table holds the record of one instance while another placed instance,
\* Internal or Hidden, has none
C5_Witness ==
    /\ SymbolsComputed
    /\ IsSome(cgus)
    /\ \E i \in DOMAIN Table : Table[i][1].kind = "Generic"
    /\ \E p \in Placed :
          /\ IsItemFn(p[1])
          /\ HasTypeArgument(p[1])
          /\ ~PassesLinkage(p)
          /\ <<Generic(p[1].def_id, p[1].substs), "Rust">> \notin Range(Table)

(* C6: no definition that requires per-call-site specialization, and no
   foreign item that is not statically included, is a key of the
   reachable_non_generics map or a NonGeneric record of the table. *)
C6_ExcludedNeverExported ==
    /\ RngComputed => \A d \in DOMAIN Rng : ~Excluded(d)
    /\ SymbolsComputed => \A i \in DOMAIN Table :
          Table[i][1].kind = "NonGeneric" => ~Excluded(Table[i][1].def_id)

(* C8: when the crate is not translated, the reachable_non_generics map and
   the table of exported symbols are empty, whatever the reachable set and the
   other options are. *)
C8_NothingWithoutTrans ==
    ~sess.should_trans =>
        /\ RngComputed => DOMAIN Rng = {}
        /\ SymbolsComputed => Table = <<>>

\* not translated, both providers have run, a function is reachable and an
\* entry point is declared
C8_Witness ==
    /\ ~sess.should_trans
    /\ RngComputed
    /\ SymbolsComputed
    /\ 3 \in tcx.reachable_set
    /\ IsSome(sess.entry_fn)

(* C9: the table is sorted by the stable comparator, and it is the only table
   the provider can return for the inputs: no iteration order of the
   reachable_non_generics map or of the codegen units and their items, and no
   outcome of the unstable sort, gives another. *)
C9_DeterministicTable ==
    SymbolsComputed =>
        /\ IsSortedBy(Table)
        /\ exported_symbols_provider_local(
                sess, tcx, reachable_non_generics_provider(sess, tcx),
                IF IsSome(cgus) THEN Unwrap(cgus) ELSE {}) = {Table}

\* two NonGeneric records stand in the table against the order of their
\* indices, next to a free-standing symbol
C9_Witness ==
    /\ SymbolsComputed
    /\ \E i, j \in DOMAIN Table :
          /\ i < j
          /\ Table[i][1].kind = "NonGeneric"
          /\ Table[j][1].kind = "NonGeneric"
          /\ Table[i][1].def_id.index > Table[j][1].def_id.index
    /\ \E k \in DOMAIN Table : Table[k][1].kind = "NoDefId"

(* C7: crates_export_threshold gives Rust exactly when some crate type of
   the list is rlib or dylib, and C otherwise; lists with the same crate types,
   in any order and multiplicity, give the same threshold. *)
C7_ExportThreshold ==
    IsSome(export_threshold) =>
        LET level == Unwrap(export_threshold)
        IN  /\ level \in {"Rust", "C"}
            /\ level = "Rust" <=>
                  \E i \in DOMAIN sess.crate_types : sess.crate_types[i] \in {"Rlib", "Dylib"}
            /\ \A other \in SeqsUpTo(CrateTypes, MaxKinds) :
                  Range(other) = Range(sess.crate_types)
                      => crates_export_threshold(other) = level

\* a list that starts with an executable and holds a dylib later
C7_Witness ==
    /\ IsSome(export_threshold)
    /\ Unwrap(export_threshold) = "Rust"
    /\ Len(sess.crate_types) >= 2
    /\ sess.crate_types[1] = "Executable"
    /\ sess.crate_types[Len(sess.crate_types)] = "Dylib"

====
